---- MODULE Spec2Model ----
(***************************************************************************)
(* Model of the generate_audio tool handler of minimax-music-server        *)
(* (src/src/index.ts).  One tool invocation is followed from the arrival   *)
(* of the CallTool request, through the single HTTP request it issues and  *)
(* the two suspension points (await fetch, await response.json()), to the  *)
(* value or the McpError that reaches the caller.                          *)
(*                                                                         *)
(* Strings are sequences of characters, so that startsWith, template       *)
(* literals and String() are computed rather than assumed.                 *)
(***************************************************************************)
EXTENDS Integers, Sequences, FiniteSets

\* ------------------------------------------------------------------ bounds
MaxPromptLen == 3
MaxBodyLen == 1

\* ------------------------------------------------------- strings and values
StartsWith(s, p) ==
  /\ Len(s) >= Len(p)
  /\ \A i \in 1..Len(p) : s[i] = p[i]

EndsWith(s, p) ==
  /\ Len(s) >= Len(p)
  /\ \A i \in 1..Len(p) : s[Len(s) - Len(p) + i] = p[i]

BoundedSeq(S, n) == UNION { [1..k -> S] : k \in 0..n }

DigitChar(d) ==
  CASE d = 0 -> "0" [] d = 1 -> "1" [] d = 2 -> "2" [] d = 3 -> "3"
    [] d = 4 -> "4" [] d = 5 -> "5" [] d = 6 -> "6" [] d = 7 -> "7"
    [] d = 8 -> "8" [] d = 9 -> "9"

RECURSIVE Digits(_)
Digits(n) == IF n < 10 THEN <<DigitChar(n)>>
             ELSE Digits(n \div 10) \o <<DigitChar(n % 10)>>

\* JavaScript values an argument can hold: a key that is absent reads as
\* undefined; JSON can carry null, strings and numbers.
JsUndefined == [t |-> "undefined", s |-> <<>>, n |-> 0]
JsNull      == [t |-> "null", s |-> <<>>, n |-> 0]
JsStr(x)    == [t |-> "string", s |-> x, n |-> 0]
JsNum(k)    == [t |-> "number", s |-> <<>>, n |-> k]

\* String(v)
ToStr(v) ==
  CASE v.t = "string"    -> v.s
    [] v.t = "number"    -> Digits(v.n)
    [] v.t = "null"      -> <<"n", "u", "l", "l">>
    [] v.t = "undefined" -> <<"u", "n", "d", "e", "f", "i", "n", "e", "d">>

\* truthiness of v, as in `v ? a : b`, `!v`, `v || d`
Truthy(v) ==
  CASE v.t = "string"    -> v.s # <<>>
    [] v.t = "number"    -> v.n # 0
    [] v.t = "null"      -> FALSE
    [] v.t = "undefined" -> FALSE

\* 'key' in args
HasKey(v) == v.t # "undefined"

\* ---------------------------------------------------------------- literals
ToolName      == "generate_audio"
Bearer        == <<"B", "e", "a", "r", "e", "r", " ">>
Hashes        == <<"#", "#">>
MinimaxMusic  == <<"minimax-music">>
StableAudio   == <<"stable-audio">>
DefaultRefUrl == <<"https://tand-dev.github.io/audio-hosting/spinning-head-271171.mp3">>
ApiUrl        == <<"https://api.aimlapi.com/v2/generate/audio">>
QueryPrefix   == <<"?generation_id=">>

MsgMissingPrompt == <<"Missing required parameter: prompt">>
MsgNoApiKey      == <<"API key not found. Please provide it in claude_desktop_config.json or as a parameter">>
MsgToolNotFound  == <<"Tool not found">>
MsgInvalidFormat == <<"Invalid response format from server">>
MsgSubmitHttp    == <<"Failed to generate audio: HTTP ">>
MsgStatusHttp    == <<"Failed to check generation status: HTTP ">>
MsgWrapPrefix    == <<"Failed to generate audio: ">>
MsgUnknown       == <<"Unknown error">>
MsgStarted       == "Generation started! Use this generation_id to check status in subsequent calls."
MsgNextStep      == "Call this tool again with the same API key and this generation_id to check status."

\* ------------------------------------------------------------------ errors
NoError == [isMcp |-> FALSE, isError |-> FALSE, code |-> "none", message |-> <<>>]

\* new McpError(ErrorCode.InvalidRequest, m)
McpError(m) == [isMcp |-> TRUE, isError |-> TRUE, code |-> "InvalidRequest", message |-> m]

\* a fault thrown by fetch or response.json(): an Error with a message, or
\* (as the catch clause allows for) a thrown value that is not an Error
Fault(isErr, m) == [isMcp |-> FALSE, isError |-> isErr, code |-> "", message |-> m]

Faults == { Fault(TRUE, <<"network down">>), Fault(FALSE, <<>>) }
JsonFaults == { Fault(TRUE, <<"invalid json">>) }

\* the catch clause of the handler
CatchDoubleWrap(e) ==
  McpError(MsgWrapPrefix \o (IF e.isError THEN e.message ELSE MsgUnknown))

Catch(e) ==
  IF e.isMcp THEN e
  ELSE McpError(MsgWrapPrefix \o (IF e.isError THEN e.message ELSE MsgUnknown))

\* ------------------------------------------------------- parameter handling
\* `!args || typeof args !== 'object' || !('prompt' in args)`
PromptMissingFalsy(hasArgs, args) == ~hasArgs \/ ~HasKey(args.prompt) \/ ~Truthy(args.prompt)

PromptMissing(hasArgs, args) == ~hasArgs \/ ~HasKey(args.prompt)

\* args.api_key ? String(args.api_key) : process.env.AIML_API_KEY
ResolveApiKeyEnvFirst(args, envKey) ==
  IF Truthy(envKey) THEN envKey
  ELSE IF Truthy(args.api_key) THEN JsStr(ToStr(args.api_key)) ELSE envKey

ResolveApiKey(args, envKey) ==
  IF Truthy(args.api_key) THEN JsStr(ToStr(args.api_key)) ELSE envKey

\* the params record
BuildParams(args, apiKey) ==
  [ prompt  |-> ToStr(args.prompt),
    api_key |-> ToStr(apiKey),
    model   |-> IF Truthy(args.model) THEN ToStr(args.model) ELSE MinimaxMusic,
    reference_audio_url |->
       IF Truthy(args.reference_audio_url)
       THEN JsStr(ToStr(args.reference_audio_url)) ELSE JsUndefined,
    generation_id |->
       IF Truthy(args.generation_id)
       THEN JsStr(ToStr(args.generation_id)) ELSE JsUndefined ]

\* if (params.generation_id)
IsPollByKey(args) == HasKey(args.generation_id)

IsPoll(args) == Truthy(BuildParams(args, JsUndefined).generation_id)

\* apiKey.startsWith('Bearer ') ? apiKey : `Bearer ${apiKey}`
AuthHeaderAlways(apiKey) == Bearer \o apiKey

AuthHeader(apiKey) == IF StartsWith(apiKey, Bearer) THEN apiKey ELSE Bearer \o apiKey

\* the prompt-wrapping rule
WrapPromptAnyModel(model, prompt) ==
  IF ~StartsWith(prompt, Hashes) THEN Hashes \o prompt \o Hashes ELSE prompt

WrapPrompt(model, prompt) ==
  IF model = MinimaxMusic /\ ~StartsWith(prompt, Hashes)
  THEN Hashes \o prompt \o Hashes
  ELSE prompt

\* the GenerationPayload, as JSON.stringify serialises it (a key whose value
\* is undefined never appears)
PayloadAlwaysRef(params) ==
  [ k \in {"model", "prompt", "reference_audio_url"} |->
      CASE k = "model"  -> params.model
        [] k = "prompt" -> WrapPrompt(params.model, params.prompt)
        [] k = "reference_audio_url" ->
             IF Truthy(params.reference_audio_url)
             THEN params.reference_audio_url.s ELSE DefaultRefUrl ]

Payload(params) ==
  LET model  == IF params.model # <<>> THEN params.model ELSE MinimaxMusic
      prompt == WrapPrompt(params.model, params.prompt)
  IN IF params.model = MinimaxMusic
     THEN [ k \in {"model", "prompt", "reference_audio_url"} |->
              CASE k = "model"  -> model
                [] k = "prompt" -> prompt
                [] k = "reference_audio_url" ->
                     IF Truthy(params.reference_audio_url)
                     THEN params.reference_audio_url.s ELSE DefaultRefUrl ]
     ELSE [ k \in {"model", "prompt"} |->
              CASE k = "model"  -> model
                [] k = "prompt" -> prompt ]

NoBody == [ k \in {} |-> <<>> ]

\* fetch(`${url}?generation_id=${generationId}`, {method: 'GET', ...})
StatusRequest(generationId, apiKey) ==
  [ method |-> "GET",
    url    |-> ApiUrl \o QueryPrefix \o generationId,
    auth   |-> AuthHeader(apiKey),
    body   |-> NoBody ]

\* fetch(url, {method: 'POST', ..., body: JSON.stringify(payload)})
SubmitRequest(params) ==
  [ method |-> "POST",
    url    |-> ApiUrl,
    auth   |-> AuthHeader(params.api_key),
    body   |-> Payload(params) ]

\* ------------------------------------------------------- remote responses
Statuses == {200, 300, 500}

\* response.ok
ResponseOkBelow500(s) == s >= 200 /\ s < 500

ResponseOk(s) == s >= 200 /\ s <= 299

\* the members a GenerationResponse can have, absent or with one of a few values
Absent == "absent"
Members ==
  [ status : {Absent, "queued"}, id : {Absent, "g1"},
    audio_file : {Absent, "file"} ]

MemberKeys == {"status", "id", "audio_file"}

ObjectOf(m) == [ k \in { j \in MemberKeys : m[j] # Absent } |-> m[k] ]

\* a decoded JSON value: its JSON type and, for an object, its members
JsonObject(f) == [t |-> "object", f |-> f]
JsonOther(t)  == [t |-> t, f |-> NoBody]

Datas ==
  { JsonObject(ObjectOf(m)) : m \in Members }
  \cup { JsonOther("null"), JsonOther("array"), JsonOther("number") }

NoData == JsonOther("none")

\* typeof data
TypeOf(d) == IF d.t \in {"object", "null", "array"} THEN "object" ELSE d.t

\* 'k' in data  (a decoded array has index keys only)
In(k, d) == d.t = "object" /\ k \in DOMAIN d.f

\* !(!data || typeof data !== 'object' || !('status' in data) || !('id' in data))
ValidResponseNoId(d) ==
  ~( d.t = "null" \/ TypeOf(d) # "object" \/ ~In("status", d) )

ValidResponse(d) ==
  ~( d.t = "null" \/ TypeOf(d) # "object" \/ ~In("status", d) \/ ~In("id", d) )

\* the toolResult of a submission
SubmitResultVerbatim(d) == d

\* result.k: reading a member the object lacks gives undefined
Member(d, k) == IF In(k, d) THEN d.f[k] ELSE "undefined"

SubmitResult(d) ==
  JsonObject([ k \in {"status", "id", "message", "next_step"} |->
     CASE k = "status"    -> Member(d, "status")
       [] k = "id"        -> Member(d, "id")
       [] k = "message"   -> MsgStarted
       [] k = "next_step" -> MsgNextStep ])

\* the toolResult of a poll
PollResult(d) == d

\* ------------------------------------------------------------------ inputs
\* prompts: every string over the two characters up to MaxPromptLen, and the
\* wrapped forms ##body## of the bodies up to MaxBodyLen
Prompts == { JsUndefined, JsNull, JsNum(7) }
           \cup { JsStr(p) : p \in BoundedSeq({"#", "a"}, MaxPromptLen) }
           \cup { JsStr(Hashes \o b \o Hashes) : b \in BoundedSeq({"#", "a"}, MaxBodyLen) }
ApiKeys == { JsUndefined, JsStr(<<>>), JsStr(<<"k">>), JsStr(Bearer \o <<"k">>) }
Models  == { JsUndefined, JsStr(MinimaxMusic), JsStr(StableAudio) }
RefUrls == { JsUndefined, JsStr(<<>>), JsStr(<<"u">>) }
GenIds  == { JsUndefined, JsStr(<<>>), JsStr(<<"a", "b", "c", "1", "2", "3">>) }
EnvKeys == { JsUndefined, JsStr(<<"e">>) }
Names   == { ToolName, "other_tool" }

Arguments == [ prompt : Prompts, api_key : ApiKeys, model : Models,
               reference_audio_url : RefUrls, generation_id : GenIds ]

NoArguments == [ prompt |-> JsUndefined, api_key |-> JsUndefined, model |-> JsUndefined,
                 reference_audio_url |-> JsUndefined, generation_id |-> JsUndefined ]

NoRequest == [ name |-> "", hasArgs |-> FALSE, args |-> NoArguments ]

\* ------------------------------------------------------------------- state
VARIABLES
  envKey,     \* process.env.AIML_API_KEY
  pc,         \* "idle", "fetching" (await fetch), "decoding" (await json), "done"
  request,    \* the CallTool request being handled
  path,       \* "none", "poll", "submit"
  requests,   \* HTTP requests issued during this invocation
  status,     \* HTTP status of the response, 0 when there is none
  bodyRead,   \* response.json() was called
  data,       \* the decoded body
  thrown,     \* the error first raised
  error,      \* the error that reaches the caller
  result      \* the toolResult that reaches the caller

vars == <<envKey, pc, request, path, requests, status, bodyRead, data, thrown, error, result>>

Init ==
  /\ envKey \in EnvKeys
  /\ pc = "idle"
  /\ request = NoRequest
  /\ path = "none"
  /\ requests = <<>>
  /\ status = 0
  /\ bodyRead = FALSE
  /\ data = NoData
  /\ thrown = NoError
  /\ error = NoError
  /\ result = NoData

\* an error raised inside the try block ends the invocation through the catch
Raise(e) ==
  /\ thrown' = e
  /\ error' = Catch(e)
  /\ pc' = "done"

\* the handler up to its first await
CallTool(n, h, a) ==
  /\ pc = "idle"
  /\ request' = [name |-> n, hasArgs |-> h, args |-> a]
  /\ UNCHANGED <<envKey, status, bodyRead, data, result>>
  /\ IF n # ToolName
     THEN /\ thrown' = McpError(MsgToolNotFound)
          /\ error' = McpError(MsgToolNotFound)
          /\ pc' = "done"
          /\ UNCHANGED <<path, requests>>
     ELSE IF PromptMissing(h, a)
     THEN /\ Raise(McpError(MsgMissingPrompt))
          /\ UNCHANGED <<path, requests>>
     ELSE LET apiKey == ResolveApiKey(a, envKey) IN
          IF ~Truthy(apiKey)
          THEN /\ Raise(McpError(MsgNoApiKey))
               /\ UNCHANGED <<path, requests>>
          ELSE LET params == BuildParams(a, apiKey) IN
               /\ pc' = "fetching"
               /\ UNCHANGED <<thrown, error>>
               /\ IF IsPoll(a)
                  THEN /\ path' = "poll"
                       /\ requests' = Append(requests,
                             StatusRequest(params.generation_id.s, params.api_key))
                  ELSE /\ path' = "submit"
                       /\ requests' = Append(requests, SubmitRequest(params))

\* fetch resolves with a response of HTTP status s
FetchResolves(s) ==
  /\ pc = "fetching"
  /\ status' = s
  /\ UNCHANGED <<envKey, request, path, requests, data, result>>
  /\ IF ~ResponseOk(s)
     THEN /\ Raise(McpError((IF path = "poll" THEN MsgStatusHttp ELSE MsgSubmitHttp)
                              \o Digits(s)))
          /\ UNCHANGED bodyRead
     ELSE /\ bodyRead' = TRUE
          /\ pc' = "decoding"
          /\ UNCHANGED <<thrown, error>>

\* fetch rejects: a transport fault
FetchRejects(e) ==
  /\ pc = "fetching"
  /\ Raise(e)
  /\ UNCHANGED <<envKey, request, path, requests, status, bodyRead, data, result>>

\* response.json() resolves with the decoded value d
JsonResolves(d) ==
  /\ pc = "decoding"
  /\ data' = d
  /\ UNCHANGED <<envKey, request, path, requests, status, bodyRead>>
  /\ IF ~ValidResponse(d)
     THEN /\ Raise(McpError(MsgInvalidFormat))
          /\ UNCHANGED result
     ELSE /\ result' = IF path = "poll" THEN PollResult(d) ELSE SubmitResult(d)
          /\ pc' = "done"
          /\ UNCHANGED <<thrown, error>>

\* response.json() rejects: the body is not JSON
JsonRejects(e) ==
  /\ pc = "decoding"
  /\ Raise(e)
  /\ UNCHANGED <<envKey, request, path, requests, status, bodyRead, data, result>>

\* the outcome has been handed to the transport; the server waits for the
\* next request and keeps nothing of this one
Respond ==
  /\ pc = "done"
  /\ pc' = "idle"
  /\ request' = NoRequest
  /\ path' = "none"
  /\ requests' = <<>>
  /\ status' = 0
  /\ bodyRead' = FALSE
  /\ data' = NoData
  /\ thrown' = NoError
  /\ error' = NoError
  /\ result' = NoData
  /\ UNCHANGED envKey

Next ==
  \/ \E a \in Arguments : CallTool(ToolName, TRUE, a)
  \/ \E n \in Names : CallTool(n, FALSE, NoArguments)
  \/ \E s \in Statuses : FetchResolves(s)
  \/ \E e \in Faults : FetchRejects(e)
  \/ \E d \in Datas : JsonResolves(d)
  \/ \E e \in JsonFaults : JsonRejects(e)
  \/ Respond

Spec == Init /\ [][Next]_vars

\* ================================================================== claims
\* Readings used by the claims, written from the specification's wording
\* and independent of the handler's operators above.
Args == request.args

\* an argument or configuration value counts as given when it is a
\* non-empty string (or another value that is not empty, zero or null)
Given(v) == v \notin { JsUndefined, JsNull, JsStr(<<>>), JsNum(0) }

Invoked == pc # "idle" /\ request.name = ToolName

HasPromptKey == request.hasArgs /\ Args.prompt.t # "undefined"

PassedNormalization == Invoked /\ HasPromptKey /\ (Given(Args.api_key) \/ Given(envKey))

Credential == IF Given(Args.api_key) THEN Args.api_key.s ELSE envKey.s

ResolvedModel == IF Given(Args.model) THEN Args.model.s ELSE MinimaxMusic

FailedWith(m) ==
  /\ pc = "done"
  /\ error.code = "InvalidRequest"
  /\ error.message = m
  /\ result = NoData

NonSuccess(s) == s < 200 \/ s > 299

IsWrapped(p) == StartsWith(p, Hashes) /\ EndsWith(p, Hashes)

RECURSIVE LeadingBearers(_)
LeadingBearers(x) ==
  IF StartsWith(x, Bearer) THEN 1 + LeadingBearers(SubSeq(x, Len(Bearer) + 1, Len(x))) ELSE 0

RECURSIVE KeyBody(_)
KeyBody(x) ==
  IF StartsWith(x, Bearer) THEN KeyBody(SubSeq(x, Len(Bearer) + 1, Len(x))) ELSE x

\* C1: an invocation of generate_audio whose arguments lack a non-empty
\* prompt (no arguments, no prompt key, or prompt = "") fails with the
\* missing-parameter error and issues no HTTP request.
C1_LackingPromptFailsWithoutRequest ==
  (Invoked /\ (~HasPromptKey \/ Args.prompt = JsStr(<<>>)))
    => (requests = <<>> /\ FailedWith(MsgMissingPrompt))

\* C2: with a prompt, the credential used is the api_key argument when one
\* is given and the process-wide key otherwise; when neither is available
\* the invocation fails with the missing-credential error and issues no
\* HTTP request.
C2_CredentialResolution ==
  (Invoked /\ HasPromptKey) =>
    IF Given(Args.api_key) \/ Given(envKey)
    THEN /\ Len(requests) = 1
         /\ requests[1].auth \in { Credential, Bearer \o Credential }
    ELSE /\ requests = <<>>
         /\ FailedWith(MsgNoApiKey)

C2_FallbackUsed ==
  /\ pc = "fetching"
  /\ Args.api_key = JsStr(<<>>)
  /\ Given(envKey)
  /\ requests[1].auth = Bearer \o envKey.s

\* C3: an invocation that passes normalization issues exactly one HTTP
\* request, whatever happens afterwards: a GET with generation_id as query
\* parameter iff generation_id is present and non-empty, otherwise a POST.
C3_ExactlyOneRequest ==
  PassedNormalization =>
    /\ Len(requests) = 1
    /\ IF Given(Args.generation_id)
       THEN /\ requests[1].method = "GET"
            /\ requests[1].url = ApiUrl \o QueryPrefix \o Args.generation_id.s
       ELSE /\ requests[1].method = "POST"
            /\ requests[1].url = ApiUrl

C3_FailedPollNotRetried ==
  /\ pc = "done"
  /\ status = 500
  /\ error # NoError
  /\ Given(Args.generation_id)
  /\ Len(requests) = 1
  /\ requests[1].method = "GET"

\* C4: on the submit path with model minimax-music the prompt sent begins
\* and ends with ##: a prompt not already wrapped is sent as ##p##, a
\* wrapped one unchanged.
C4_SentPromptWrapped ==
  (path = "submit" /\ ResolvedModel = MinimaxMusic) =>
    LET p    == ToStr(Args.prompt)
        sent == requests[1].body["prompt"]
    IN /\ IsWrapped(sent)
       /\ sent = IF IsWrapped(p) THEN p ELSE Hashes \o p \o Hashes

\* C5: the POST body contains reference_audio_url iff the resolved model is
\* minimax-music; its value is then the caller's URL when given and the
\* default URL otherwise.
C5_ReferenceUrlOnlyForMinimax ==
  path = "submit" =>
    LET b == requests[1].body IN
    /\ b["model"] = ResolvedModel
    /\ ("reference_audio_url" \in DOMAIN b) <=> (ResolvedModel = MinimaxMusic)
    /\ ResolvedModel = MinimaxMusic =>
         b["reference_audio_url"] =
           IF Given(Args.reference_audio_url) THEN Args.reference_audio_url.s
           ELSE DefaultRefUrl

C5_SuppliedUrlOmitted ==
  /\ path = "submit"
  /\ Args.model = JsStr(StableAudio)
  /\ Given(Args.reference_audio_url)
  /\ DOMAIN requests[1].body = {"model", "prompt"}

\* C6: on both the POST and the GET the Authorization header is the key
\* behind exactly one "Bearer " prefix: a prefixed key is sent as is, an
\* unprefixed key gets one prefix.
C6_SingleBearerPrefix ==
  requests # <<>> =>
    LET h == requests[1].auth IN
    /\ LeadingBearers(h) = 1
    /\ KeyBody(h) = KeyBody(Credential)
    /\ StartsWith(Credential, Bearer) => h = Credential

C6_PrefixedKeyOnPoll ==
  /\ path = "poll"
  /\ StartsWith(Credential, Bearer)
  /\ requests[1].method = "GET"
  /\ requests[1].auth = Credential

\* C7: a non-success HTTP status s, on either path, ends the invocation with
\* an error whose message carries s; the body is not read and no result is
\* returned.
C7_NonSuccessStatusFails ==
  (status # 0 /\ NonSuccess(status)) =>
    /\ FailedWith((IF Given(Args.generation_id) THEN MsgStatusHttp ELSE MsgSubmitHttp)
                    \o Digits(status))
    /\ EndsWith(error.message, Digits(status))
    /\ ~bodyRead
    /\ data = NoData

C7_Status500OnSubmit ==
  /\ pc = "done"
  /\ path = "submit"
  /\ status = 500
  /\ error.message = MsgSubmitHttp \o <<"5", "0", "0">>

\* C8: no success payload is built from a decoded response that is not a
\* record with both status and id; such a response fails the invocation with
\* the invalid-response error.
C8_InvalidResponseRejected ==
  LET wellFormed == data.t = "object" /\ {"status", "id"} \subseteq DOMAIN data.f IN
  /\ result # NoData => wellFormed
  /\ (pc = "done" /\ data # NoData /\ ~wellFormed) => FailedWith(MsgInvalidFormat)

C8_MissingIdRejected ==
  /\ pc = "done"
  /\ data.t = "object"
  /\ DOMAIN data.f = {"status", "audio_file"}
  /\ error.message = MsgInvalidFormat

\* C9: a successful poll returns the remote response verbatim; a successful
\* submission returns only the remote's status and id plus the two guidance
\* strings.
C9_ResultShape ==
  (pc = "done" /\ result # NoData) =>
    IF Given(Args.generation_id)
    THEN result = data
    ELSE /\ result.t = "object"
         /\ DOMAIN result.f = {"status", "id", "message", "next_step"}
         /\ result.f["status"] = data.f["status"]
         /\ result.f["id"] = data.f["id"]
         /\ result.f["message"] = MsgStarted
         /\ result.f["next_step"] = MsgNextStep

C9_SubmitDropsAudioFile ==
  /\ pc = "done"
  /\ path = "submit"
  /\ result # NoData
  /\ "audio_file" \in DOMAIN data.f
  /\ "audio_file" \notin DOMAIN result.f

\* C10: an invocation ends in exactly one of a success payload or an error,
\* nothing is delivered before it ends, every error has the invalid-request
\* kind, an error already of that kind is passed on unchanged and any other
\* fault is wrapped once with a readable message.
C10_SingleOutcome ==
  /\ pc = "done" => ((result # NoData) <=> (error = NoError))
  /\ pc # "done" => (result = NoData /\ error = NoError)
  /\ error # NoError =>
       /\ error.isMcp
       /\ error.code = "InvalidRequest"
       /\ thrown.isMcp => error = thrown
       /\ ~thrown.isMcp =>
            error.message =
              MsgWrapPrefix \o (IF thrown.isError THEN thrown.message ELSE MsgUnknown)

C10_McpErrorPassedThrough ==
  /\ pc = "done"
  /\ status = 500
  /\ thrown.isMcp
  /\ error = thrown

====
